---- MODULE Spec2Model ----
(***************************************************************************)
(* The signature compositor of src/src/app.js: the in-memory store         *)
(* processedDocuments, its two ingestion handlers (POST /api/upload and    *)
(* POST /api/upload-file) and the composing handler GET                    *)
(* /api/download/:fileName.                                                *)
(*                                                                         *)
(* Node runs one handler segment at a time: a handler runs without         *)
(* interruption from one await to the next.  POST /api/upload has no       *)
(* await, so it is one action; the two other handlers are split at their   *)
(* awaits (docxConverter, PDFLib.load, embedPng/embedJpg, save).           *)
(*                                                                         *)
(* Abstractions.  Numbers are integers (the code uses doubles).  An image  *)
(* payload, a string in the code, is the pair of its data-URI tag and the  *)
(* format of the bytes its base64 text decodes to.  A fixed-page document  *)
(* (the bytes the converter writes) is the list of its pages' heights; the  *)
(* converter is taken at its contract: what it writes parses.  A JSON or   *)
(* form field that is absent is a field missing from the record.  The      *)
(* processedAt timestamp of a record is left out: nothing reads it.        *)
(***************************************************************************)
EXTENDS Integers, Sequences, FiniteSets, TLC

VARIABLES
    processedDocuments,   \* the Map of app.js:41: file name -> record
    uploadResponse,       \* the last response of POST /api/upload
    uploadFile,           \* the POST /api/upload-file requests, by slot
    download,             \* the GET /api/download requests, by slot
    requests,             \* number of requests received so far
    lastPut,              \* history: per name, the put that wrote last and
                          \* the number of puts that have written the name
    putsSeen,             \* history: per download, the number of puts that
                          \* had written its name when it looked it up
    invalidSent           \* history: the last body sent to POST /api/upload
                          \* held an overlay that fails a validation check

vars == <<processedDocuments, uploadResponse, uploadFile, download, requests,
          lastPut, putsSeen, invalidSent>>

\* ------------------------------------------------------------------ bounds

\* Requests the service receives in one run.
MaxRequests == 4

UploadFileSlots == {1, 2}
DownloadSlots == {1, 2}

\* ------------------------------------------------------- program constants

DefaultX == 300
DefaultY == 400
DefaultLargura == 150
DefaultAltura == 50

\* ------------------------------------------------------------ image payloads

\* "data:image/png;base64,<a PNG>"
PngOk == [tag |-> "png", body |-> "png"]
\* "data:image/png;base64,not-base64!!": tagged, but the bytes are no image
PngBad == [tag |-> "png", body |-> "garbage"]
\* "data:image/jpeg;base64,<a JPEG>"
JpegOk == [tag |-> "jpeg", body |-> "jpeg"]
\* "not-base64!!": no tag, no image
NotBase64 == [tag |-> "none", body |-> "garbage"]

\* sig.imageData.startsWith('data:image/jpeg') || ...png || ...jpg
IsValidImage(imageData) == imageData.tag \in {"jpeg", "png", "jpg"}

\* sig.imageData.includes('jpeg') ? 'JPEG' : 'PNG'
Tipo(imageData) == IF imageData.tag = "jpeg" THEN "JPEG" ELSE "PNG"

\* ------------------------------------------------------------------- store

EmptyMap == [k \in {} |-> 0]

\* Map.prototype.set as app.js uses it: the entry of key is replaced whole.
MapSet(map, key, value) ==
    [k \in DOMAIN map \cup {key} |-> IF k = key THEN value ELSE map[k]]

\* processedDocuments.get(key): the record, or undefined
Undefined == [undefined |-> TRUE]
MapGet(map, key) == IF key \in DOMAIN map THEN map[key] ELSE Undefined

\* ------------------------------------------------------- POST /api/upload

\* The checks of the validation loop on one signature, in the code's order;
\* "none" when the signature passes all four.
SignatureError(sig) ==
    IF "imageData" \notin DOMAIN sig
      THEN "imageData"
    ELSE IF "page" \notin DOMAIN sig \/ sig.page = 0 \/ sig.page < 1
      THEN "page"
    ELSE IF \/ "position" \notin DOMAIN sig
            \/ "x" \notin DOMAIN sig.position \/ sig.position.x = 0
            \/ "y" \notin DOMAIN sig.position \/ sig.position.y = 0
      THEN "position"
    ELSE IF ~IsValidImage(sig.imageData)
      THEN "format"
    ELSE "none"

\* Variant: a loop that checks the first signature only.
FirstInvalid_OnlyFirst(signatures) ==
    IF Len(signatures) > 0 /\ SignatureError(signatures[1]) # "none" THEN 1 ELSE 0

\* The index at which the validation loop returns 400; 0 when it runs through.
FirstInvalid(signatures) ==
    IF \E i \in 1..Len(signatures) : SignatureError(signatures[i]) # "none"
      THEN CHOOSE i \in 1..Len(signatures) :
             /\ SignatureError(signatures[i]) # "none"
             /\ \A j \in 1..(i - 1) : SignatureError(signatures[j]) = "none"
      ELSE 0

\* sig.width || 150, sig.height || 50
OrDefault(obj, field, default) ==
    IF field \in DOMAIN obj /\ obj[field] # 0 THEN obj[field] ELSE default

\* One element of docSignatures (signatures.map).
DocSignature(sig) ==
    [ pagina    |-> sig.page,
      posicao   |-> [x |-> sig.position.x, y |-> sig.position.y],
      dimensoes |-> [ largura |-> OrDefault(sig, "width", DefaultLargura),
                      altura  |-> OrDefault(sig, "height", DefaultAltura) ],
      tipo      |-> Tipo(sig.imageData),
      imageData |-> sig.imageData ]

DocSignatures(signatures) ==
    [i \in 1..Len(signatures) |-> DocSignature(signatures[i])]

DefaultNames == <<"documento_1.docx", "documento_2.docx", "documento_3.docx">>

\* doc.nome || `documento_${index + 1}.docx`
DocName(doc, index) ==
    IF "nome" \in DOMAIN doc THEN doc.nome ELSE DefaultNames[index]

\* Variant: the signatures are appended to those of the record already stored.
UploadRecord_Merge(docName, docSignatures) ==
    [ nome |-> docName,
      signatures |->
        (IF docName \in DOMAIN processedDocuments
           THEN processedDocuments[docName].signatures ELSE <<>>) \o docSignatures ]

\* The record POST /api/upload stores: a name and the signatures, no bytes.
UploadRecord(docName, docSignatures) ==
    [nome |-> docName, signatures |-> docSignatures]

\* documents.map: one processedDocuments.set per document, in array order.
RECURSIVE StoreDocuments(_, _, _, _)
StoreDocuments(map, documents, index, signatures) ==
    IF index > Len(documents)
      THEN map
      ELSE StoreDocuments(
             MapSet(map, DocName(documents[index], index),
                    UploadRecord(DocName(documents[index], index),
                                 DocSignatures(signatures))),
             documents, index + 1, signatures)

\* History: the number of puts that have written the record of key.
Puts(map, key) == IF key \in DOMAIN map THEN map[key].seq ELSE 0

\* History: put is noted as the last writer of key.
Note(map, key, put) ==
    MapSet(map, key, [put |-> put, seq |-> Puts(map, key) + 1])

RECURSIVE NoteDocuments(_, _, _, _)
NoteDocuments(map, documents, index, put) ==
    IF index > Len(documents)
      THEN map
      ELSE NoteDocuments(Note(map, DocName(documents[index], index), put),
                         documents, index + 1, put)

Response(status, error, assinatura) ==
    [status |-> status, error |-> error, assinatura |-> assinatura]

\* The signatures the model sends to POST /api/upload: two that pass the
\* validation loop and four that fail it, one per check.
SigDefault ==
    [imageData |-> JpegOk, page |-> 1, position |-> [x |-> 300, y |-> 400]]
SigUndecodable ==
    [imageData |-> PngBad, page |-> 2, position |-> [x |-> 10, y |-> 790],
     width |-> -5, height |-> 10]
SigNoImage == [page |-> 1, position |-> [x |-> 10, y |-> 10]]
SigPageZero ==
    [imageData |-> PngOk, page |-> 0, position |-> [x |-> 10, y |-> 10]]
SigOrigin ==
    [imageData |-> NotBase64, page |-> 1, position |-> [x |-> 0, y |-> 0],
     width |-> 10, height |-> 10]
SigNoTag ==
    [imageData |-> NotBase64, page |-> 1, position |-> [x |-> 10, y |-> 10],
     width |-> 10, height |-> 10]

SignatureArrays ==
    { <<>>, <<SigDefault>>, <<SigUndecodable>>,
      <<SigDefault, SigUndecodable>>, <<SigUndecodable, SigDefault>>,
      <<SigNoImage, SigDefault>>, <<SigDefault, SigPageZero>>,
      <<SigOrigin>>, <<SigDefault, SigUndecodable, SigNoTag>> }

FileNames == {"a.docx"}

DocumentArrays ==
    { <<>>, <<[nome |-> "a.docx"]>>, <<[nome |-> "b.docx"], [tamanho |-> 1]>> }

UploadBodies ==
    {[documents |-> d, signatures |-> s] : d \in DocumentArrays, s \in SignatureArrays}
    \cup {[signatures |-> <<>>], [documents |-> <<>>]}

\* History: an overlay that the ingestion checks reject: no image, no page or a page
\* below 1, no position or a zero coordinate, an image tag other than
\* JPEG or PNG.
InvalidOverlay(sig) ==
    \/ "imageData" \notin DOMAIN sig
    \/ "page" \notin DOMAIN sig
    \/ "position" \notin DOMAIN sig
    \/ ("page" \in DOMAIN sig /\ sig.page < 1)
    \/ ("position" \in DOMAIN sig /\ (sig.position.x = 0 \/ sig.position.y = 0))
    \/ ("imageData" \in DOMAIN sig /\ sig.imageData.tag \notin {"jpeg", "jpg", "png"})

\* History: the body holds such an overlay, at whatever index.
HasInvalidOverlay(body) ==
    /\ "documents" \in DOMAIN body /\ "signatures" \in DOMAIN body
    /\ \E i \in 1..Len(body.signatures) : InvalidOverlay(body.signatures[i])

Upload(body) ==
    /\ requests < MaxRequests
    /\ requests' = requests + 1
    /\ UNCHANGED <<uploadFile, download, putsSeen>>
    /\ invalidSent' = HasInvalidOverlay(body)
    /\ IF "documents" \notin DOMAIN body
         THEN /\ uploadResponse' = Response(400, "documents", 0)
              /\ UNCHANGED <<processedDocuments, lastPut>>
       ELSE IF "signatures" \notin DOMAIN body
         THEN /\ uploadResponse' = Response(400, "signatures", 0)
              /\ UNCHANGED <<processedDocuments, lastPut>>
       ELSE IF FirstInvalid(body.signatures) # 0
         THEN /\ uploadResponse' =
                   Response(400,
                            SignatureError(body.signatures[FirstInvalid(body.signatures)]),
                            FirstInvalid(body.signatures))
              /\ UNCHANGED <<processedDocuments, lastPut>>
       ELSE /\ processedDocuments' =
                 StoreDocuments(processedDocuments, body.documents, 1, body.signatures)
            /\ lastPut' = NoteDocuments(lastPut, body.documents, 1,
                                        [path |-> "upload", overlays |-> body.signatures])
            /\ uploadResponse' = Response(200, "none", 0)

\* --------------------------------------------------- POST /api/upload-file

\* parseFloat(field) || default: the default replaces an absent or
\* non-numeric field (NaN) and also a field that parses to 0.
ParseFloatOr(body, field, default) ==
    IF field \in DOMAIN body /\ body[field] # 0 THEN body[field] ELSE default

\* The record POST /api/upload-file stores: the converted bytes and exactly
\* one signature, which carries neither a page nor a type.
UploadFileRecord(fileName, originalPdfBytes, body) ==
    [ nome             |-> fileName,
      originalPdfBytes |-> originalPdfBytes,
      signatures       |->
        << [ imageData |-> body.signature,
             posicao   |-> [ x |-> ParseFloatOr(body, "positionX", DefaultX),
                             y |-> ParseFloatOr(body, "positionY", DefaultY) ],
             dimensoes |-> [ largura |-> ParseFloatOr(body, "signatureWidth", DefaultLargura),
                             altura  |-> ParseFloatOr(body, "signatureHeight", DefaultAltura) ] ] >> ]

\* The multipart bodies the model sends.
FormBodies ==
    { [signature |-> PngOk],
      [signature |-> NotBase64, positionX |-> 0, positionY |-> 0,
       signatureWidth |-> 10, signatureHeight |-> 10],
      [positionX |-> 10, positionY |-> 10] }

UploadFileRequests ==
    {[file |-> [originalname |-> n], body |-> b] : n \in FileNames, b \in FormBodies}
    \cup {[body |-> [signature |-> PngOk]]}

\* What docxConverter and fs.readFileSync give: an error, or the bytes of a
\* fixed-page document, here the heights of its pages.
ConverterOutcomes ==
    {[err |-> TRUE]} \cup {[err |-> FALSE, pdf |-> p] : p \in {<<792>>, <<200, 792>>}}

\* Lines 106-127: the two 400 checks, then the handler waits for the converter.
UploadFileStart(s, req) ==
    /\ uploadFile[s].pc = "idle"
    /\ \A t \in UploadFileSlots : t < s => uploadFile[t].pc # "idle"
    /\ requests < MaxRequests
    /\ requests' = requests + 1
    /\ UNCHANGED <<processedDocuments, uploadResponse, download, lastPut, putsSeen, invalidSent>>
    /\ IF "file" \notin DOMAIN req
         THEN uploadFile' = [uploadFile EXCEPT ![s] =
                 [pc |-> "done", response |-> Response(400, "file", 0)]]
       ELSE IF "signature" \notin DOMAIN req.body
         THEN uploadFile' = [uploadFile EXCEPT ![s] =
                 [pc |-> "done", response |-> Response(400, "signature", 0)]]
       ELSE uploadFile' = [uploadFile EXCEPT ![s] =
                 [pc |-> "converting", fileName |-> req.file.originalname,
                  body |-> req.body]]

\* Variant: a converter error is answered 500, but a record with no page is
\* stored under the name all the same.
UploadFileConverted_StoreOnError(s, outcome, unlinkOk) ==
    /\ uploadFile[s].pc = "converting"
    /\ UNCHANGED <<uploadResponse, download, requests, putsSeen, invalidSent>>
    /\ LET pdf == IF outcome.err THEN <<>> ELSE outcome.pdf IN
       /\ processedDocuments' =
             MapSet(processedDocuments, uploadFile[s].fileName,
                    UploadFileRecord(uploadFile[s].fileName, pdf, uploadFile[s].body))
       /\ lastPut' = Note(lastPut, uploadFile[s].fileName,
                          [path |-> "upload-file",
                           overlays |-> <<uploadFile[s].body>>,
                           pdf |-> pdf])
       /\ uploadFile' = [uploadFile EXCEPT ![s] =
             [pc |-> "done",
              response |-> IF outcome.err THEN Response(500, "converter", 0)
                           ELSE IF unlinkOk THEN Response(200, "none", 0)
                           ELSE Response(500, "unlink", 0)]]

\* Lines 129-173: the converter has answered.  On an error the catch answers
\* 500.  Otherwise the record is stored, then the two temporary files are
\* deleted; fs.unlinkSync may throw, and the catch then answers 500.
UploadFileConverted(s, outcome, unlinkOk) ==
    /\ uploadFile[s].pc = "converting"
    /\ UNCHANGED <<uploadResponse, download, requests, putsSeen, invalidSent>>
    /\ IF outcome.err
         THEN /\ uploadFile' = [uploadFile EXCEPT ![s] =
                    [pc |-> "done", response |-> Response(500, "converter", 0)]]
              /\ UNCHANGED <<processedDocuments, lastPut>>
         ELSE /\ processedDocuments' =
                    MapSet(processedDocuments, uploadFile[s].fileName,
                           UploadFileRecord(uploadFile[s].fileName, outcome.pdf,
                                            uploadFile[s].body))
              /\ lastPut' = Note(lastPut, uploadFile[s].fileName,
                                 [path |-> "upload-file",
                                  overlays |-> <<uploadFile[s].body>>,
                                  pdf |-> outcome.pdf])
              /\ uploadFile' = [uploadFile EXCEPT ![s] =
                    [pc |-> "done",
                     response |-> IF unlinkOk THEN Response(200, "none", 0)
                                              ELSE Response(500, "unlink", 0)]]

\* ------------------------------------------- GET /api/download/:fileName

\* sig.imageData.includes('png') ? embedPng(imageBytes) : embedJpg(imageBytes):
\* the embed resolves when the decoded bytes are an image of that format.
EmbedSucceeds(imageData) ==
    IF imageData.tag = "png" THEN imageData.body = "png" ELSE imageData.body = "jpeg"

\* Variant: the vertical flip forgets the height of the signature.
DrawImage_NoAltura(sig, height) ==
    [ kind   |-> "image",
      page   |-> 1,
      x      |-> sig.posicao.x,
      y      |-> height - sig.posicao.y,
      width  |-> sig.dimensoes.largura,
      height |-> sig.dimensoes.altura ]

\* Lines 413-427: firstPage.drawImage
DrawImage(sig, height) ==
    [ kind   |-> "image",
      page   |-> 1,
      x      |-> sig.posicao.x,
      y      |-> height - sig.posicao.y - sig.dimensoes.altura,
      width  |-> sig.dimensoes.largura,
      height |-> sig.dimensoes.altura ]

\* Lines 435-443: firstPage.drawRectangle, the fallback of the catch
DrawRectangle(sig, height) ==
    [ kind   |-> "rectangle",
      page   |-> 1,
      x      |-> sig.posicao.x,
      y      |-> height - sig.posicao.y - sig.dimensoes.altura,
      width  |-> sig.dimensoes.largura,
      height |-> sig.dimensoes.altura ]

\* Variant: the overlay is drawn on the last page of the document.
ApplySignature_LastPage(sig, pages) ==
    [ (IF EmbedSucceeds(sig.imageData)
         THEN DrawImage(sig, pages[Len(pages)])
         ELSE DrawRectangle(sig, pages[Len(pages)]))
      EXCEPT !.page = Len(pages) ]

\* Variant: no catch around the embed, so a rejected embed leaves the loop.
ApplySignature_NoCatch(sig, pages) ==
    IF EmbedSucceeds(sig.imageData)
      THEN DrawImage(sig, pages[1])
      ELSE [kind |-> "throw"]

\* Lines 392-444, one iteration of the signature loop: the try draws the
\* image, and when the embed rejects the catch draws the rectangle instead.
\* An exception that left the iteration would show as kind "throw".
ApplySignature(sig, pages) ==
    IF EmbedSucceeds(sig.imageData)
      THEN DrawImage(sig, pages[1])
      ELSE DrawRectangle(sig, pages[1])

\* Variant: the 404 check never fires.
NotFound_Never(docData) == FALSE

\* if (!docData)
NotFound(docData) == docData = Undefined

\* Variant: each iteration looks the record up in the store again.
CurrentSignature_Live(s) ==
    LET i == Len(download[s].draws) + 1
        live == MapGet(processedDocuments, download[s].fileName)
    IN IF live # Undefined /\ i <= Len(live.signatures)
         THEN live.signatures[i]
         ELSE download[s].docData.signatures[i]

\* for (const sig of docData.signatures): the loop reads the record it looked
\* up at the start of the request.
CurrentSignature(s) ==
    download[s].docData.signatures[Len(download[s].draws) + 1]

DownloadNames == {"a.docx", "b.docx"}

\* Lines 375-386: the lookup, the 404, then the handler waits for PDFLib.load.
DownloadStart(s, fileName) ==
    /\ download[s].pc = "idle"
    /\ \A t \in DownloadSlots : t < s => download[t].pc # "idle"
    /\ requests < MaxRequests
    /\ requests' = requests + 1
    /\ UNCHANGED <<processedDocuments, uploadResponse, uploadFile, lastPut, invalidSent>>
    /\ putsSeen' = [putsSeen EXCEPT ![s] = Puts(lastPut, fileName)]
    /\ LET docData == MapGet(processedDocuments, fileName) IN
       IF NotFound(docData)
         THEN download' = [download EXCEPT ![s] =
                 [pc |-> "done", fileName |-> fileName, docData |-> docData,
                  response |-> [status |-> 404]]]
         ELSE download' = [download EXCEPT ![s] =
                 [pc |-> "loading", fileName |-> fileName, docData |-> docData]]

\* Lines 386-405: PDFLib.load has answered.  It rejects bytes that are
\* undefined (and reading originalPdfBytes of undefined throws before it), and
\* the outer catch answers 500.  Otherwise the loop starts and
\* runs to its first embed, or the record has no signature and save is called.
DownloadLoaded(s) ==
    /\ download[s].pc = "loading"
    /\ UNCHANGED <<processedDocuments, uploadResponse, uploadFile, requests, lastPut, putsSeen, invalidSent>>
    /\ LET d == download[s] IN
       IF "originalPdfBytes" \notin DOMAIN d.docData
         THEN download' = [download EXCEPT ![s] =
                 [pc |-> "done", fileName |-> d.fileName, docData |-> d.docData,
                  response |-> [status |-> 500]]]
         ELSE download' = [download EXCEPT ![s] =
                 [pc |-> IF Len(d.docData.signatures) = 0 THEN "saving" ELSE "embedding",
                  fileName |-> d.fileName, docData |-> d.docData,
                  pages |-> d.docData.originalPdfBytes, draws |-> <<>>]]

\* Lines 391-445: the embed of the current signature has answered; the image
\* or the fallback rectangle is drawn and the loop goes on to the next
\* signature, or to save after the last one.
DownloadEmbedded(s) ==
    /\ download[s].pc = "embedding"
    /\ UNCHANGED <<processedDocuments, uploadResponse, uploadFile, requests, lastPut, putsSeen, invalidSent>>
    /\ LET d == download[s]
           i == Len(d.draws) + 1
           drawn == ApplySignature(CurrentSignature(s), d.pages)
       IN IF drawn.kind = "throw"
            THEN download' = [download EXCEPT ![s] =
                    [pc |-> "done", fileName |-> d.fileName, docData |-> d.docData,
                     response |-> [status |-> 500]]]
            ELSE download' = [download EXCEPT ![s] =
                    [d EXCEPT !.pc = IF i = Len(d.docData.signatures)
                                       THEN "saving" ELSE "embedding",
                              !.draws = Append(d.draws, drawn)]]

\* Variant: the record is deleted once its document has been sent.
DownloadSaved_Evict(s) ==
    /\ download[s].pc = "saving"
    /\ UNCHANGED <<uploadResponse, uploadFile, requests, lastPut, putsSeen, invalidSent>>
    /\ processedDocuments' =
          [k \in DOMAIN processedDocuments \ {download[s].fileName} |->
              processedDocuments[k]]
    /\ LET d == download[s] IN
       download' = [download EXCEPT ![s] =
             [pc |-> "done", fileName |-> d.fileName, docData |-> d.docData,
              response |-> [status |-> 200, pages |-> d.pages, draws |-> d.draws]]]

\* Lines 447-454: save has answered; the bytes are sent with status 200.
DownloadSaved(s) ==
    /\ download[s].pc = "saving"
    /\ UNCHANGED <<processedDocuments, uploadResponse, uploadFile, requests, lastPut, putsSeen, invalidSent>>
    /\ LET d == download[s] IN
       download' = [download EXCEPT ![s] =
             [pc |-> "done", fileName |-> d.fileName, docData |-> d.docData,
              response |-> [status |-> 200, pages |-> d.pages, draws |-> d.draws]]]

Init ==
    /\ processedDocuments = EmptyMap
    /\ uploadResponse = Response(0, "none", 0)
    /\ uploadFile = [s \in UploadFileSlots |-> [pc |-> "idle"]]
    /\ download = [s \in DownloadSlots |-> [pc |-> "idle"]]
    /\ requests = 0
    /\ lastPut = EmptyMap
    /\ putsSeen = [s \in DownloadSlots |-> 0]
    /\ invalidSent = FALSE

Next ==
    \/ \E body \in UploadBodies : Upload(body)
    \/ \E s \in UploadFileSlots, req \in UploadFileRequests : UploadFileStart(s, req)
    \/ \E s \in UploadFileSlots, outcome \in ConverterOutcomes, unlinkOk \in BOOLEAN :
          UploadFileConverted(s, outcome, unlinkOk)
    \/ \E s \in DownloadSlots, fileName \in DownloadNames : DownloadStart(s, fileName)
    \/ \E s \in DownloadSlots : DownloadLoaded(s)
    \/ \E s \in DownloadSlots : DownloadEmbedded(s)
    \/ \E s \in DownloadSlots : DownloadSaved(s)

Spec == Init /\ [][Next]_vars

\* ------------------------------------------------------------------ claims

\* The draw the code owes overlay sig on a first page of height h, spelled
\* out: x' = x, y' = h - y - height, the size unchanged.
NativeRectangle(draw, sig, h) ==
    /\ draw.x = sig.posicao.x
    /\ draw.y = h - sig.posicao.y - sig.dimensoes.altura
    /\ draw.width = sig.dimensoes.largura
    /\ draw.height = sig.dimensoes.altura

\* The draws a request has made so far, or sent.
DrawsOf(d) ==
    IF d.pc \in {"embedding", "saving"} THEN d.draws
    ELSE IF d.pc = "done" /\ d.response.status = 200 THEN d.response.draws
    ELSE <<>>

PagesOf(d) ==
    IF d.pc \in {"embedding", "saving"} THEN d.pages ELSE d.response.pages

\* C1: a download of a name that has no record in the store answers 404 at
\* once, sends no document, and leaves the store as it was.
C1_UnknownIdentityNotFound ==
    [][ \A s \in DownloadSlots :
          ( /\ download[s].pc = "idle"
            /\ download'[s].pc # "idle"
            /\ download'[s].fileName \notin DOMAIN processedDocuments )
          => ( /\ download'[s].pc = "done"
               /\ download'[s].response = [status |-> 404]
               /\ processedDocuments' = processedDocuments ) ]_vars

\* C1 witness: a 404 for a name without record, after a put and a successful
\* download on another name.
C1_Witness ==
    \E s, t \in DownloadSlots :
        /\ download[s].pc = "done" /\ download[s].response.status = 404
        /\ download[s].fileName \notin DOMAIN processedDocuments
        /\ download[t].pc = "done" /\ download[t].response.status = 200
        /\ download[t].fileName \in DOMAIN processedDocuments

C3_StoredOverlaysValid ==
    \A k \in DOMAIN processedDocuments :
        \A i \in 1..Len(processedDocuments[k].signatures) :
            LET o == processedDocuments[k].signatures[i] IN
            /\ "pagina" \in DOMAIN o
            /\ o.pagina >= 1
            /\ o.dimensoes.largura > 0
            /\ o.dimensoes.altura > 0
            /\ o.imageData.tag \in {"jpeg", "jpg", "png"}

\* C4: whenever the embed of an overlay fails, the download draws a rectangle
\* at that overlay's transformed rectangle, goes through all the overlays of
\* the record and answers 200: a download that got past the loading of the
\* base bytes never answers an error.
C4_GracefulDegradation ==
    \A s \in DownloadSlots :
        LET d == download[s] IN
        /\ \A i \in 1..Len(DrawsOf(d)) :
              ~EmbedSucceeds(d.docData.signatures[i].imageData)
              => ( /\ DrawsOf(d)[i].kind = "rectangle"
                   /\ NativeRectangle(DrawsOf(d)[i], d.docData.signatures[i],
                                      PagesOf(d)[1]) )
        /\ ( d.pc = "done" /\ d.docData # Undefined
             /\ "originalPdfBytes" \in DOMAIN d.docData )
           => ( /\ d.response.status = 200
                /\ Len(d.response.draws) = Len(d.docData.signatures) )

\* C4 witness: a download whose overlay could not be embedded has answered
\* 200 with the rectangle in its place.
C4_Witness ==
    \E s \in DownloadSlots :
        /\ download[s].pc = "done" /\ download[s].response.status = 200
        /\ \E i \in 1..Len(download[s].response.draws) :
              /\ ~EmbedSucceeds(download[s].docData.signatures[i].imageData)
              /\ download[s].response.draws[i].kind = "rectangle"

\* C5: two downloads of one name with no put of that name between their
\* lookups answer the same: the same status, the same pages and the same
\* draws in the same order, however the two requests and the other requests
\* were interleaved.
C5_Determinism ==
    \A s, t \in DownloadSlots :
        ( /\ download[s].pc = "done" /\ download[t].pc = "done"
          /\ download[s].fileName = download[t].fileName
          /\ putsSeen[s] = putsSeen[t] )
        => download[s].response = download[t].response

\* C5 witness: two downloads of the same record have both answered 200 with
\* a draw.
C5_Witness ==
    /\ download[1].pc = "done" /\ download[2].pc = "done"
    /\ download[1].fileName = download[2].fileName
    /\ putsSeen[1] = putsSeen[2]
    /\ download[1].response.status = 200
    /\ Len(download[1].response.draws) > 0

\* C6: no step of a download changes the store.
C6_ComposeLeavesStore ==
    [][ download' # download => processedDocuments' = processedDocuments ]_vars

\* C6 witness: a download has answered 200 and the record it read is still
\* the stored one; the other download has ended with an error.
C6_Witness ==
    \E s, t \in DownloadSlots :
        /\ download[s].pc = "done" /\ download[s].response.status = 200
        /\ MapGet(processedDocuments, download[s].fileName) = download[s].docData
        /\ download[t].pc = "done" /\ download[t].response.status \in {404, 500}

\* C7: every draw, image or rectangle, is at x' = x, y' = H - y - h with the
\* overlay's own width and height, also when that lies outside the page; and
\* H = 792, position (300, 400), size (150, 50) gives (300, 342, 150, 50).
C7_CoordinateTransform ==
    \A s \in DownloadSlots :
        LET d == download[s] IN
        \A i \in 1..Len(DrawsOf(d)) :
            LET draw == DrawsOf(d)[i]
                sig  == d.docData.signatures[i]
                h    == PagesOf(d)[1]
            IN /\ draw.kind \in {"image", "rectangle"}
               /\ NativeRectangle(draw, sig, h)
               /\ ( /\ h = 792 /\ sig.posicao = [x |-> 300, y |-> 400]
                    /\ sig.dimensoes = [largura |-> 150, altura |-> 50] )
                  => ( /\ draw.x = 300 /\ draw.y = 342
                       /\ draw.width = 150 /\ draw.height = 50 )

\* C7 witness: an image drawn at (300, 342, 150, 50) on a page of height 792,
\* and a rectangle drawn below the bottom edge of its page.
C7_Witness ==
    \E s, t \in DownloadSlots :
        /\ \E i \in 1..Len(DrawsOf(download[s])) :
              LET draw == DrawsOf(download[s])[i] IN
              /\ draw.kind = "image" /\ PagesOf(download[s])[1] = 792
              /\ draw.x = 300 /\ draw.y = 342 /\ draw.width = 150 /\ draw.height = 50
        /\ \E i \in 1..Len(DrawsOf(download[t])) :
              LET draw == DrawsOf(download[t])[i] IN
              /\ draw.kind = "rectangle" /\ draw.y < 0

\* C8: the record stored under a name is the record of one put, the one that
\* wrote last: its base bytes (none for /api/upload) and exactly its overlays,
\* in its order.
C8_LastWriteWins ==
    /\ DOMAIN lastPut = DOMAIN processedDocuments
    /\ \A k \in DOMAIN processedDocuments :
        LET r == processedDocuments[k]
            p == lastPut[k].put
        IN IF p.path = "upload"
             THEN /\ "originalPdfBytes" \notin DOMAIN r
                  /\ Len(r.signatures) = Len(p.overlays)
                  /\ \A i \in 1..Len(p.overlays) :
                        /\ r.signatures[i].imageData = p.overlays[i].imageData
                        /\ r.signatures[i].pagina = p.overlays[i].page
                        /\ r.signatures[i].posicao = p.overlays[i].position
             ELSE /\ r.originalPdfBytes = p.pdf
                  /\ Len(r.signatures) = 1
                  /\ r.signatures[1].imageData = p.overlays[1].signature

\* C8 witness: both upload-file requests, which name the same file, have
\* written, and so has an upload.
C8_Witness ==
    /\ \A s \in UploadFileSlots :
          uploadFile[s].pc = "done" /\ uploadFile[s].response.status = 200
    /\ uploadResponse.status = 200
    /\ "a.docx" \in DOMAIN processedDocuments
    /\ Len(processedDocuments["a.docx"].signatures) > 0

\* C9 as claimed: a download of a stored record with two or more overlays
\* makes one draw per overlay, in the stored order.
C9_OverlayOrder ==
    \A s \in DownloadSlots :
        LET d == download[s] IN
        ( /\ d.pc = "done" /\ d.docData # Undefined
          /\ Len(d.docData.signatures) >= 2 )
        => ( /\ "draws" \in DOMAIN d.response
             /\ Len(d.response.draws) = Len(d.docData.signatures)
             /\ \A i \in 1..Len(d.docData.signatures) :
                   NativeRectangle(d.response.draws[i], d.docData.signatures[i],
                                   d.response.pages[1]) )

\* C10 as claimed: a download of a stored record that holds an overlay whose
\* image cannot be decoded answers 200 with a rectangle for that overlay.
C10_LazyImageValidation ==
    \A s \in DownloadSlots :
        LET d == download[s] IN
        \A i \in 1..(IF d.pc = "done" /\ d.docData # Undefined
                       THEN Len(d.docData.signatures) ELSE 0) :
            d.docData.signatures[i].imageData.body = "garbage"
            => ( /\ d.response.status = 200
                 /\ d.response.draws[i].kind = "rectangle" )

\* C11 as claimed: every record in the store holds the bytes of the fixed-page
\* document together with its overlay list, whichever route wrote it, and so
\* no download of a stored name ends in the 500 of the outer catch.
C11_RecordsHoldBaseBytes ==
    /\ \A k \in DOMAIN processedDocuments :
          /\ "originalPdfBytes" \in DOMAIN processedDocuments[k]
          /\ "signatures" \in DOMAIN processedDocuments[k]
    /\ \A s \in DownloadSlots :
          ( /\ download[s].pc = "done"
            /\ download[s].docData # Undefined )
          => download[s].response.status # 500

\* C12: when the converter reports an error, the upload-file request answers
\* 500 and the store is left as it was: no record is added, and a record
\* already stored under that name is not modified.
C12_ConversionFailureStoresNothing ==
    [][ (uploadFile' # uploadFile)
          => \A s \in UploadFileSlots, unlinkOk \in BOOLEAN :
                UploadFileConverted(s, [err |-> TRUE], unlinkOk)
                => ( /\ uploadFile'[s].pc = "done"
                     /\ uploadFile'[s].response.status = 500
                     /\ processedDocuments' = processedDocuments ) ]_vars

\* C12 witness: one request was answered the converter's 500 while the store
\* holds the record another request wrote under the same name.
C12_Witness ==
    \E s, t \in UploadFileSlots :
        /\ uploadFile[s].pc = "done"
        /\ uploadFile[s].response = Response(500, "converter", 0)
        /\ uploadFile[t].pc = "done"
        /\ uploadFile[t].response.status = 200
        /\ "a.docx" \in DOMAIN processedDocuments
        /\ "originalPdfBytes" \in DOMAIN processedDocuments["a.docx"]

C14_OutcomeAgreesWithStore ==
    [][ \A s \in UploadFileSlots :
          ( /\ uploadFile[s].pc # "done"
            /\ uploadFile'[s].pc = "done" )
          => ( /\ (uploadFile'[s].response.status = 200) <=> (lastPut' # lastPut)
               /\ uploadFile'[s].response.status \in {400, 500}
                    => processedDocuments' = processedDocuments ) ]_vars

====
